---- MODULE Spec2Model ----
(***************************************************************************)
(* ImageLab: the pipeline executor (applyTransformPipeline), the pipeline  *)
(* editor and the Python code generator (generatePythonCode) of the        *)
(* workbench page, over an abstract OpenCV.js heap of cv.Mat handles.      *)
(***************************************************************************)
EXTENDS Integers, Sequences, FiniteSets, TLC

VARIABLES
  cvReady,            \* useOpenCv: isReady / cv is set
  images,             \* ImageState: [original, processed]
  originalMat,        \* retained source buffer (a reference) or NoRef
  transformPipeline,  \* sequence of TransformStep
  showCodeExport,     \* the code export modal is open
  pending,            \* dataUrlToMat decodes in flight
  heap,               \* [src |-> source Mats, run |-> Mats of the current/last run]
  pc,                 \* position of applyTransformPipeline
  stepIdx,            \* index of the step of the for loop
  body,               \* statements of the current step still to execute
  mat,                \* the run's current buffer (a reference)
  locals,             \* the current step's local Mats: name -> reference
  matsToRelease,      \* the run's release list
  raisedAt,           \* index of the step whose transform raised in this run, 0 if none
  lastAlert,          \* the last alert() of the run: the step it names, or NoAlert
  outcome,            \* how the last invocation of applyTransformPipeline ended
  clipboard,          \* the text last copied from the code export modal
  probe,              \* a step whose numbers the executor and the generated script derive
  selectedCategory,   \* the category chosen in the first dropdown, "" if none
  selectedOperation,  \* the operation chosen in the second dropdown, "" if none
  transformParams,    \* the parameter values of the sliders
  consoleError,       \* the last console.error() of the run, or NoLog
  lastEdit,           \* the last call of a pipeline handler: its arguments and the
                      \* pipeline it was applied to
  cvError,            \* useOpenCv: error, NoError for null
  failTimer           \* useOpenCv: the 10 second timer, "armed" or "fired"

vars == <<cvReady, images, originalMat, transformPipeline, showCodeExport, pending,
          heap, pc, stepIdx, body, mat, locals, matsToRelease, raisedAt, lastAlert,
          outcome, clipboard, probe, selectedCategory, selectedOperation,
          transformParams, consoleError, lastEdit, cvError, failTimer>>

runVars == <<pc, stepIdx, body, mat, locals, matsToRelease, raisedAt, lastAlert, outcome,
             consoleError>>

editorVars == <<selectedCategory, selectedOperation, transformParams, lastEdit>>

hookVars == <<cvError, failTimer>>

-----------------------------------------------------------------------------
(* Bounds *)

MaxLen == 2
MaxDecodes == 3
MaxDim == 3
MaxBlur == 6
MaxIds == 3
MaxEdited == 3
MaxRotations == 4

Imgs == {"imgA", "imgB"}

-----------------------------------------------------------------------------
(* OperationCatalog *)

Op(v, l, p) == [value |-> v, label |-> l, params |-> p]

TRANSFORM_CATEGORIES == <<
  [category |-> "Basic Operations", operations |-> <<
     Op("grayscale", "Grayscale", <<>>),
     Op("resize", "Resize", <<"resizeWidth", "resizeHeight">>),
     Op("crop", "Crop", <<"cropX", "cropY", "cropWidth", "cropHeight">>),
     Op("flip", "Flip", <<"flipDirection">>),
     Op("rotate", "Rotate", <<"rotateAngle">>) >>],
  [category |-> "Color Spaces", operations |-> <<
     Op("hsv", "Convert to HSV", <<>>),
     Op("lab", "Convert to LAB", <<>>),
     Op("ycrcb", "Convert to YCrCb", <<>>),
     Op("hed", "Convert to HED", <<>>),
     Op("cmyk", "Convert to CMYK", <<>>) >>],
  [category |-> "Point Operations", operations |-> <<
     Op("brightness", "Brightness Adjustment", <<"brightness">>),
     Op("contrast", "Contrast Adjustment", <<"contrast">>),
     Op("gamma", "Gamma Correction", <<"gamma">>),
     Op("hist_eq", "Histogram Equalization", <<>>) >>],
  [category |-> "Blurring", operations |-> <<
     Op("gaussian_blur", "Gaussian Blur", <<"blur">>),
     Op("median_blur", "Median Blur", <<"blur">>),
     Op("bilateral", "Bilateral Filter",
        <<"bilateralDiameter", "bilateralSigmaColor", "bilateralSigmaSpace">>),
     Op("nl_means", "Non-local Means Denoising", <<"nlStrength">>) >>],
  [category |-> "Edge Detection", operations |-> <<
     Op("canny", "Canny Edge", <<"cannyThreshold1", "cannyThreshold2">>),
     Op("sobel", "Sobel Edge", <<"sobelDx", "sobelDy">>),
     Op("laplacian", "Laplacian Edge", <<>>) >>],
  [category |-> "Thresholding", operations |-> <<
     Op("simple_thresh", "Simple Threshold", <<"threshold">>),
     Op("adaptive_thresh", "Adaptive Threshold", <<"adaptiveBlockSize", "adaptiveC">>),
     Op("otsu", "Otsu Threshold", <<>>) >>],
  [category |-> "Morphological", operations |-> <<
     Op("erode", "Erosion", <<"morphKernelSize">>),
     Op("dilate", "Dilation", <<"morphKernelSize">>),
     Op("open", "Opening", <<"morphKernelSize">>),
     Op("close", "Closing", <<"morphKernelSize">>) >>],
  [category |-> "Geometric", operations |-> <<
     Op("translate", "Translation", <<"translateX", "translateY">>),
     Op("perspective", "Perspective Transform", <<"perspectivePoints">>),
     Op("affine", "Affine Transform", <<"affinePoints">>) >>],
  [category |-> "Blending & Arithmetic", operations |-> <<
     Op("add_weighted", "AddWeighted Blend", <<"blendAlpha", "blendBeta">>) >>],
  [category |-> "Contours & Annotation", operations |-> <<
     Op("find_contours", "Find Contours", <<>>),
     Op("draw_text", "Draw Text",
        <<"text", "textX", "textY", "textFontSize", "textColor">>),
     Op("feature_detect", "Feature Detection", <<>>) >>] >>

\* every operation of the catalog (the entries of the two Select dropdowns)
CatalogOps ==
  UNION { { TRANSFORM_CATEGORIES[c].operations[k] :
              k \in 1..Len(TRANSFORM_CATEGORIES[c].operations) } :
          c \in 1..Len(TRANSFORM_CATEGORIES) }

\* a parameter a step does not set (undefined in the source)
Unset == -1

DEFAULT_PARAMS ==
  [blur |-> 5, threshold |-> 128, contrast |-> 120, brightness |-> 110, sharpen |-> 1,
   cropX |-> 10, cropY |-> 10, cropWidth |-> 80, cropHeight |-> 80]

\* step.params.<key>: the recorded value, or Unset (undefined)
Param(step, key) ==
  IF key \in DOMAIN step.params THEN step.params[key] ELSE Unset

\* a ?? d
Nullish(a, d) == IF a = Unset THEN d ELSE a

\* a || d, for numbers: undefined and 0 both give d
Falsy(a, d) == IF a = Unset \/ a = 0 THEN d ELSE a

-----------------------------------------------------------------------------
(* The heap of cv.Mat handles *)

NoRef == [h |-> "none", i |-> 0]
NoAlert == [name |-> ""]
NoLog == [type |-> ""]
NoParams == [k \in {} |-> 0]
NoEdit == [op |-> "none"]
NoError == ""

Ref(space, i) == [h |-> space, i |-> i]

Buf(content, ch) == [live |-> TRUE, dels |-> 0, content |-> content, ch |-> ch]

Get(hp, r) == hp[r.h][r.i]

Put(hp, r, b) == [hp EXCEPT ![r.h][r.i] = b]

IsLive(hp, r) == r # NoRef /\ hp[r.h][r.i].live

\* new cv.Mat(...): the grown heap; the new handle is NewRef of the old heap
Alloc(hp, space, b) == [hp EXCEPT ![space] = Append(@, b)]

NewRef(hp, space) == Ref(space, Len(hp[space]) + 1)

\* m.delete(): the handle is released; dels counts the calls
Release(hp, r) ==
  Put(hp, r, [Get(hp, r) EXCEPT !.live = FALSE, !.dels = @ + 1])

LiveRun(hp) == { i \in 1..Len(hp.run) : hp.run[i].live }

\* pixel content: the image it derives from and the number of writes applied
Content(img, ver) == [img |-> img, ver |-> ver]

\* a data URL: the uploaded file, or a PNG encoded from a buffer
NoUrl == [kind |-> "none", img |-> "", ver |-> 0]

UploadUrl(img) == [kind |-> "upload", img |-> img, ver |-> 0]

\* dataUrlToMat: a fresh 4-channel Mat holding the decoded pixels
DataUrlToMat(url) == Buf(Content(url.img, url.ver), 4)

\* matToDataUrl: the PNG of the buffer's pixels
MatToDataUrl(b) == [kind |-> "png", img |-> b.content.img, ver |-> b.content.ver]

-----------------------------------------------------------------------------
(* The statements of a step of applyTransformPipeline *)

\* one statement: op is "new" (let x = new cv.Mat / a factory), "roi" (mat.roi),
\* "get" (channels.get(i): a new handle on a plane of the vector, passed as an
\* argument and never deleted), "call" (a provider primitive reading src and
\* writing dst), "del" (x.delete()) or "set" (mat = x; matsToRelease.push(mat)). ch is the channel count the call
\* leaves in dst (0: that of src). fin lists the locals an enclosing
\* try/finally deletes when the call raises.
St(op, fn, src, dst, ch, fin) ==
  [op |-> op, fn |-> fn, src |-> src, dst |-> dst, ch |-> ch, fin |-> fin]

New(x) == St("new", "Mat", "", x, 0, <<>>)
Call(fn, src, dst, ch) == St("call", fn, src, dst, ch, <<>>)
CallFin(fn, src, dst, ch, fin) == St("call", fn, src, dst, ch, fin)
GetOf(v, x) == St("get", "get", v, x, 0, <<>>)
Del(x) == St("del", "delete", "", x, 0, <<>>)
SetMat(x) == St("set", "assign", "", x, 0, <<>>)

RECURSIVE Repeat(_, _)
Repeat(ss, n) == IF n = 0 THEN <<>> ELSE ss \o Repeat(ss, n - 1)

\* faulty variant: the thresholded gray image is copied back without re-expansion
ThreshBodyGray(fn) ==
  << New("gray"), Call("cvtColor", "mat", "gray", 1),
     New("out"), Call(fn, "gray", "out", 0),
     Call("copyTo", "out", "mat", 0),
     Del("gray"), Del("out") >>

\* gray round trip used by the threshold family
ThreshBody(fn) ==
  << New("gray"), Call("cvtColor", "mat", "gray", 1),
     New("out"), Call(fn, "gray", "out", 0),
     Call("cvtColor", "out", "mat", 4),
     Del("gray"), Del("out") >>

\* gray, 16-bit gradient and its absolute value used by sobel and laplacian
EdgeBody(fn, g, a) ==
  << New("gray"), Call("cvtColor", "mat", "gray", 1),
     New(g), Call(fn, "gray", g, 0),
     New(a), Call("convertScaleAbs", g, a, 0),
     Call("cvtColor", a, "mat", 4),
     Del("gray"), Del(g), Del(a) >>

\* a color space round trip through a temporary
ColorBody ==
  << New("out"), Call("cvtColor", "mat", "out", 3),
     Call("cvtColor", "out", "mat", 4), Del("out") >>

\* a transform into a new buffer that replaces the current one
ReplaceBody(fn, x) ==
  << New(x), Call(fn, "mat", x, 0), Del("mat"), SetMat(x) >>

RotateBody(angle) ==
  << New("rotated") >>
  \o (IF angle \in {90, 180, 270}
        THEN << Call("rotate", "mat", "rotated", 0) >>
        ELSE << New("M"), Call("warpAffine", "mat", "rotated", 0), Del("M") >>)
  \o << Del("mat"), SetMat("rotated") >>

BilateralBody(ch) ==
  << New("out") >>
  \o (IF ch = 4
        THEN << New("converted"), Call("cvtColor", "mat", "converted", 3),
                CallFin("bilateralFilter", "converted", "out", 0, <<"out", "converted">>),
                CallFin("cvtColor", "out", "mat", 4, <<"out", "converted">>),
                Del("out"), Del("converted") >>
        ELSE << CallFin("bilateralFilter", "mat", "out", 0, <<"out">>),
                CallFin("copyTo", "out", "mat", 0, <<"out">>),
                Del("out") >>)

GammaBody(ch) ==
  << New("lut"), New("channels"), Call("split", "mat", "channels", 0) >>
  \o Repeat(<< GetOf("channels", "plane"), GetOf("channels", "target"),
               Call("LUT", "plane", "target", 0) >>, ch)
  \o << Call("merge", "channels", "mat", 0), Del("lut"), Del("channels") >>

HistEqBody ==
  << New("ycrcb"), Call("cvtColor", "mat", "ycrcb", 3),
     New("channels"), Call("split", "ycrcb", "channels", 0),
     GetOf("channels", "plane"), GetOf("channels", "target"),
     Call("equalizeHist", "plane", "target", 0),
     Call("merge", "channels", "ycrcb", 0),
     Call("cvtColor", "ycrcb", "mat", 4),
     Del("ycrcb"), Del("channels") >>

MorphBody(fn) ==
  << New("out"), New("kernel"), Call(fn, "mat", "out", 0),
     Del("mat"), SetMat("out"), Del("kernel") >>

TranslateBody ==
  << New("out"), New("M"), Call("warpAffine", "mat", "out", 0),
     Del("mat"), SetMat("out"), Del("M") >>

\* faulty variant: hed routed through the conversion branch
ColorSpaceTypesWithHed == {"hsv", "lab", "ycrcb", "hed"}

\* the color spaces converted there and back (hsv, lab, ycrcb branches)
ColorSpaceTypes == {"hsv", "lab", "ycrcb"}

\* the branch of the if / else-if chain that step.type selects; ch is the channel
\* count of the current buffer (mat.type() and channels.size())
Body(step, ch) ==
  LET t == step.type IN
  CASE t = "grayscale" ->
         << New("gray"), Call("cvtColor", "mat", "gray", 1),
            Call("cvtColor", "gray", "mat", 4), Del("gray") >>
    [] t = "resize" -> ReplaceBody("resize", "resized")
    [] t = "crop" -> << St("roi", "roi", "mat", "roi", 0, <<>>), Del("mat"), SetMat("roi") >>
    [] t = "flip" -> ReplaceBody("flip", "flipped")
    [] t = "rotate" -> RotateBody(Falsy(Param(step, "rotateAngle"), 0))
    [] t \in ColorSpaceTypes -> ColorBody
    [] t \in {"hed", "cmyk"} -> <<>>
    [] t \in {"contrast", "brightness"} -> << Call("convertTo", "mat", "mat", 0) >>
    [] t = "gamma" -> GammaBody(ch)
    [] t = "hist_eq" -> HistEqBody
    [] t = "gaussian_blur" -> ReplaceBody("GaussianBlur", "out")
    [] t = "median_blur" -> ReplaceBody("medianBlur", "out")
    [] t = "bilateral" -> BilateralBody(ch)
    [] t = "nl_means" -> <<>>
    [] t = "canny" ->
         << New("out"), Call("Canny", "mat", "out", 1),
            Call("cvtColor", "out", "mat", 4), Del("out") >>
    [] t = "sobel" -> EdgeBody("Sobel", "grad", "absGrad")
    [] t = "laplacian" -> EdgeBody("Laplacian", "lap", "absLap")
    [] t = "simple_thresh" -> ThreshBody("threshold")
    [] t = "adaptive_thresh" -> ThreshBody("adaptiveThreshold")
    [] t = "otsu" -> ThreshBody("threshold")
    [] t = "erode" -> MorphBody("erode")
    [] t = "dilate" -> MorphBody("dilate")
    [] t = "open" -> MorphBody("morphologyEx")
    [] t = "close" -> MorphBody("morphologyEx")
    [] t = "translate" -> TranslateBody
    [] t \in {"perspective", "affine", "add_weighted", "find_contours",
              "feature_detect"} -> <<>>
    [] t = "draw_text" -> << Call("putText", "mat", "mat", 0) >>
    [] OTHER -> <<>>

-----------------------------------------------------------------------------
(* State after construction *)

NoLocals == [x \in {} |-> NoRef]

NoProbe == [phase |-> "off"]

\* nothing copied yet
NoText == << [text |-> "(nothing copied)", nums |-> <<>>, name |-> ""] >>

Init ==
  /\ cvReady = FALSE
  /\ images = [original |-> NoUrl, processed |-> NoUrl]
  /\ originalMat = NoRef
  /\ transformPipeline = <<>>
  /\ showCodeExport = FALSE
  /\ pending = {}
  /\ heap = [src |-> <<>>, run |-> <<>>]
  /\ pc = "idle"
  /\ stepIdx = 0
  /\ body = <<>>
  /\ mat = NoRef
  /\ locals = NoLocals
  /\ matsToRelease = <<>>
  /\ raisedAt = 0
  /\ lastAlert = NoAlert
  /\ outcome = "none"
  /\ clipboard = NoText
  /\ probe = NoProbe
  /\ selectedCategory = ""
  /\ selectedOperation = ""
  /\ transformParams = NoParams
  /\ consoleError = NoLog
  /\ lastEdit = NoEdit
  /\ cvError = NoError
  /\ failTimer = "armed"

-----------------------------------------------------------------------------
(* useOpenCv, upload and reset *)

\* checkReady finds window.cv.Mat: setIsReady(true), setCv(window.cv)
CvLoaded ==
  /\ pc = "idle"
  /\ ~cvReady
  /\ cvReady' = TRUE
  /\ UNCHANGED <<hookVars, editorVars, images, originalMat, transformPipeline, showCodeExport,
                 pending, heap, runVars, clipboard, probe>>

\* the failTimeout callback: if (!isReadyRef.current) setError('Failed to load OpenCV.js');
\* isReadyRef.current is set together with isReady
FailTimeout ==
  /\ pc = "idle"
  /\ failTimer = "armed"
  /\ failTimer' = "fired"
  /\ cvError' = IF ~cvReady THEN "Failed to load OpenCV.js" ELSE cvError
  /\ UNCHANGED <<editorVars, cvReady, images, originalMat, transformPipeline, showCodeExport,
                 pending, heap, runVars, clipboard, probe>>

\* what the page renders: the loading text while not ready, then the error text if an
\* error is set, else the workbench
Page ==
  IF ~cvReady THEN "Loading OpenCV.js..."
  ELSE IF cvError # NoError THEN cvError
  ELSE "workbench"

\* reader.onload of handleImageUpload up to its await: with cv the decode of the file
\* starts; without cv the images and the pipeline are set at once
HandleImageUpload(img) ==
  /\ pc = "idle"
  /\ IF cvReady
       THEN /\ Len(heap.src) + Cardinality(pending) < MaxDecodes
            /\ pending' = pending \cup {[kind |-> "upload", url |-> UploadUrl(img)]}
            /\ UNCHANGED <<images, transformPipeline, lastEdit>>
       ELSE /\ images' = [original |-> UploadUrl(img), processed |-> UploadUrl(img)]
            /\ transformPipeline' = <<>>
            /\ lastEdit' = [op |-> "upload"]
            /\ UNCHANGED pending
  /\ UNCHANGED <<selectedCategory, selectedOperation, transformParams, cvReady, hookVars, originalMat,
                 showCodeExport, heap, runVars, clipboard, probe>>

\* the continuation of handleImageUpload after await dataUrlToMat
UploadDecoded(task) ==
  /\ pc = "idle"
  /\ task \in pending
  /\ task.kind = "upload"
  /\ pending' = pending \ {task}
  /\ heap' = Alloc(heap, "src", DataUrlToMat(task.url))
  /\ originalMat' = NewRef(heap, "src")
  /\ images' = [original |-> task.url, processed |-> task.url]
  /\ transformPipeline' = <<>>
  /\ lastEdit' = [op |-> "upload"]
  /\ UNCHANGED <<selectedCategory, selectedOperation, transformParams, cvReady, hookVars,
                 showCodeExport, runVars, clipboard, probe>>

\* handleReset up to its await
HandleReset ==
  /\ pc = "idle"
  /\ images' = [images EXCEPT !.processed = NoUrl]
  /\ transformPipeline' = <<>>
  /\ transformParams' = NoParams
  /\ selectedCategory' = ""
  /\ selectedOperation' = ""
  /\ lastEdit' = [op |-> "reset"]
  /\ IF cvReady /\ images.original # NoUrl
       THEN /\ Len(heap.src) + Cardinality(pending) < MaxDecodes
            /\ pending' = pending \cup {[kind |-> "reset", url |-> images.original]}
       ELSE UNCHANGED pending
  /\ UNCHANGED <<cvReady, hookVars, originalMat, showCodeExport, heap, runVars, clipboard, probe>>

\* the continuation of handleReset after await dataUrlToMat
ResetDecoded(task) ==
  /\ pc = "idle"
  /\ task \in pending
  /\ task.kind = "reset"
  /\ pending' = pending \ {task}
  /\ heap' = Alloc(heap, "src", DataUrlToMat(task.url))
  /\ originalMat' = NewRef(heap, "src")
  /\ UNCHANGED <<editorVars, cvReady, hookVars, images, transformPipeline, showCodeExport, runVars,
                 clipboard, probe>>

-----------------------------------------------------------------------------
(* The pipeline editor *)

\* the elements of a list
Range(f) == { f[k] : k \in 1..Len(f) }

\* the items of the category dropdown
CategoryNames == { TRANSFORM_CATEGORIES[c].category : c \in 1..Len(TRANSFORM_CATEGORIES) }

\* currentCategory?.operations: the operations of the selected category, none when
\* no category has that name
OperationsOf(cat) ==
  UNION { Range(TRANSFORM_CATEGORIES[c].operations) :
            c \in { d \in 1..Len(TRANSFORM_CATEGORIES) : TRANSFORM_CATEGORIES[d].category = cat } }

NoOperation == Op("", "", <<>>)

\* currentOperation: the selected operation's descriptor, or undefined
CurrentOperation ==
  IF \E op \in OperationsOf(selectedCategory) : op.value = selectedOperation
    THEN CHOOSE op \in OperationsOf(selectedCategory) : op.value = selectedOperation
    ELSE NoOperation

\* the category dropdown: setSelectedCategory(value); setSelectedOperation("")
SelectCategory(cat) ==
  /\ pc = "idle"
  /\ cat \in CategoryNames
  /\ selectedCategory' = cat
  /\ selectedOperation' = ""
  /\ UNCHANGED <<transformParams, lastEdit, cvReady, hookVars, images, originalMat, transformPipeline,
                 showCodeExport, pending, heap, runVars, clipboard, probe>>

\* defaults[param] = DEFAULT_PARAMS[param] ?? 0 for the parameters of the operation
DefaultsOf(op) ==
  [param \in Range(op.params) |->
     IF param \in DOMAIN DEFAULT_PARAMS THEN DEFAULT_PARAMS[param] ELSE 0]

\* the operation dropdown, rendered once a category is selected
SelectOperation(value) ==
  /\ pc = "idle"
  /\ selectedCategory # ""
  /\ \E op \in OperationsOf(selectedCategory) :
       /\ op.value = value
       /\ transformParams' = DefaultsOf(op)
  /\ selectedOperation' = value
  /\ UNCHANGED <<selectedCategory, lastEdit, cvReady, hookVars, images, originalMat, transformPipeline,
                 showCodeExport, pending, heap, runVars, clipboard, probe>>

\* values a slider is dragged to
SliderValues == {0, 50}

\* a parameter slider: setTransformParams(prev => ({ ...prev, [param]: value[0] }))
SetTransformParam(param, value) ==
  /\ pc = "idle"
  /\ CurrentOperation # NoOperation
  /\ param \in Range(CurrentOperation.params)
  /\ transformParams' = (param :> value) @@ transformParams
  /\ UNCHANGED <<selectedCategory, selectedOperation, lastEdit, cvReady, hookVars, images, originalMat,
                 transformPipeline, showCodeExport, pending, heap, runVars, clipboard, probe>>

StepIds == 1..MaxIds

\* generateId(): Math.random().toString(36).substr(2, 9), any of the strings it yields
GenerateId == StepIds

\* params: { ...DEFAULT_PARAMS }
AuthoredParams(sliders) == DEFAULT_PARAMS

\* "Add to Pipeline", rendered while an operation is selected
AddTransformToPipeline ==
  /\ pc = "idle"
  /\ CurrentOperation # NoOperation
  /\ selectedOperation # ""
  /\ \E id \in GenerateId :
       transformPipeline' =
         Append(transformPipeline,
                [id |-> id, type |-> selectedOperation,
                 params |-> AuthoredParams(transformParams), name |-> CurrentOperation.label])
  /\ selectedOperation' = ""
  /\ lastEdit' = [op |-> "add"]
  /\ UNCHANGED <<selectedCategory, transformParams, cvReady, hookVars, images, originalMat,
                 showCodeExport, pending, heap, runVars, clipboard, probe>>

\* prev.filter(step => step.id !== id)
FilterOut(pipeline, id) ==
  SelectSeq(pipeline, LAMBDA st : st.id # id)

RemoveTransformFromPipeline(id) ==
  /\ pc = "idle"
  /\ transformPipeline' = FilterOut(transformPipeline, id)
  /\ lastEdit' = [op |-> "remove", id |-> id, prev |-> transformPipeline]
  /\ UNCHANGED <<selectedCategory, selectedOperation, transformParams, cvReady, hookVars, images,
                 originalMat, showCodeExport, pending, heap, runVars, clipboard, probe>>

\* findIndex: the first index with that id, 0 for -1
FindIndex(pipeline, id) ==
  IF \E k \in 1..Len(pipeline) : pipeline[k].id = id
    THEN CHOOSE k \in 1..Len(pipeline) :
           /\ pipeline[k].id = id
           /\ \A j \in 1..(k - 1) : pipeline[j].id # id
    ELSE 0

\* faulty variant: the step is moved one position further
NewIndexFar(index, direction) == IF direction = "up" THEN index - 2 ELSE index + 2

\* direction === "up" ? index - 1 : index + 1
NewIndex(index, direction) == IF direction = "up" THEN index - 1 ELSE index + 1

\* splice(index, 1) then splice(newIndex, 0, movedStep)
MoveStep(pipeline, id, direction) ==
  LET index == FindIndex(pipeline, id)
      newIndex == NewIndex(index, direction)
      without == [k \in 1..(Len(pipeline) - 1) |->
                    IF k < index THEN pipeline[k] ELSE pipeline[k + 1]]
  IN IF index = 0 THEN pipeline
     ELSE IF newIndex < 1 \/ newIndex > Len(pipeline) THEN pipeline
     ELSE [k \in 1..Len(pipeline) |->
             IF k < newIndex THEN without[k]
             ELSE IF k = newIndex THEN pipeline[index]
             ELSE without[k - 1]]

MoveTransformInPipeline(id, direction) ==
  /\ pc = "idle"
  /\ transformPipeline' = MoveStep(transformPipeline, id, direction)
  /\ lastEdit' = [op |-> "move", id |-> id, direction |-> direction,
                  prev |-> transformPipeline]
  /\ UNCHANGED <<selectedCategory, selectedOperation, transformParams, cvReady, hookVars, images,
                 originalMat, showCodeExport, pending, heap, runVars, clipboard, probe>>

\* the "Export Code" button: setShowCodeExport(!showCodeExport), disabled while the
\* pipeline is empty; and the modal's Close button
ToggleCodeExport ==
  /\ pc = "idle"
  /\ \/ Len(transformPipeline) > 0 /\ showCodeExport' = ~showCodeExport
     \/ showCodeExport /\ showCodeExport' = FALSE
  /\ UNCHANGED <<editorVars, cvReady, hookVars, images, originalMat, transformPipeline, pending, heap, runVars,
                 clipboard, probe>>

-----------------------------------------------------------------------------
(* applyTransformPipeline *)

\* an empty cv.Mat
EmptyMat == Buf(Content("", 0), 0)

\* if (!originalMat || !cv) return
Refused == originalMat = NoRef \/ ~cvReady

\* faulty variant: the processed image is cleared before the guard
RefuseImagesCleared(imgs) == [imgs EXCEPT !.processed = NoUrl]

\* what the early return leaves of the images
RefuseImages(imgs) == imgs

\* faulty variant: the empty pipeline clears the processed image
PassThroughNone(imgs) == [imgs EXCEPT !.processed = NoUrl]

\* the empty pipeline: processed: prev.original
PassThrough(imgs) == [imgs EXCEPT !.processed = imgs.original]

\* faulty variant: the run works on the source handle itself
CloneAlias(hp, src) == [heap |-> hp, ref |-> src]

\* originalMat.clone(): the heap with the copy, and the handle of the copy
CloneSource(hp, src) ==
  [heap |-> Alloc(hp, "run", Buf(Get(hp, src).content, Get(hp, src).ch)),
   ref |-> NewRef(hp, "run")]

\* the heap of a new run: the Mats of the previous run are no longer tracked
FreshRun(hp) == [hp EXCEPT !.run = <<>>]

\* the variable a statement names
Lookup(x) == IF x = "mat" THEN mat ELSE locals[x]

\* the guard, the empty-pipeline branch, and the start of a run up to the loop
ApplyTransformPipeline ==
  /\ pc = "idle"
  /\ IF Refused
       THEN /\ images' = RefuseImages(images)
            /\ outcome' = "refused"
            /\ UNCHANGED <<heap, pc, stepIdx, body, mat, locals, matsToRelease, raisedAt,
                           lastAlert, consoleError>>
       ELSE IF Len(transformPipeline) = 0
       THEN /\ images' = PassThrough(images)
            /\ outcome' = "empty"
            /\ UNCHANGED <<heap, pc, stepIdx, body, mat, locals, matsToRelease, raisedAt,
                           lastAlert, consoleError>>
       ELSE LET c == CloneSource(FreshRun(heap), originalMat) IN
            /\ images' = [images EXCEPT !.processed = NoUrl]
            /\ heap' = c.heap
            /\ mat' = c.ref
            /\ matsToRelease' = <<c.ref>>
            /\ pc' = "steps"
            /\ stepIdx' = 1
            /\ body' = Body(transformPipeline[1], Get(c.heap, c.ref).ch)
            /\ locals' = NoLocals
            /\ raisedAt' = 0
            /\ lastAlert' = NoAlert
            /\ consoleError' = NoLog
            /\ outcome' = "running"
  /\ UNCHANGED <<editorVars, cvReady, hookVars, originalMat, transformPipeline, showCodeExport, pending, clipboard, probe>>

\* x.delete() for each x of xs that is bound, in order
RECURSIVE ReleaseAll(_, _)
ReleaseAll(hp, rs) ==
  IF rs = <<>> THEN hp ELSE ReleaseAll(Release(hp, Head(rs)), Tail(rs))

\* the handles the locals named in fin hold (the inner finally of bilateral)
FinRefs(fin) ==
  SelectSeq([k \in 1..Len(fin) |-> IF fin[k] \in DOMAIN locals THEN locals[fin[k]] ELSE NoRef],
            LAMBDA r : r # NoRef)

\* the catch block of a step: processed: null, alert naming the step, break
CatchImages(imgs) == [imgs EXCEPT !.processed = NoUrl]

\* console.error(`Error in operation '${step.type}':`, err)
ConsoleErrorOf(step) == [type |-> step.type]

\* faulty variant: the alert interpolates the operation identifier
AlertOfType(step) == [name |-> step.type]

\* alert(`Error in operation '${step.name}': ...`)
AlertOf(step) == [name |-> step.name]

\* faulty variant: the catch block without its break
RaiseAndContinue(fin) ==
  /\ heap' = ReleaseAll(heap, FinRefs(fin))
  /\ images' = CatchImages(images)
  /\ consoleError' = ConsoleErrorOf(transformPipeline[stepIdx])
  /\ lastAlert' = AlertOf(transformPipeline[stepIdx])
  /\ raisedAt' = stepIdx
  /\ body' = <<>>
  /\ locals' = NoLocals
  /\ UNCHANGED <<pc, mat, matsToRelease, stepIdx, outcome>>

\* a statement raises: inner finally, then the catch block of the step and break
Raise(fin) ==
  /\ heap' = ReleaseAll(heap, FinRefs(fin))
  /\ images' = CatchImages(images)
  /\ consoleError' = ConsoleErrorOf(transformPipeline[stepIdx])
  /\ lastAlert' = AlertOf(transformPipeline[stepIdx])
  /\ raisedAt' = stepIdx
  /\ pc' = "encode"
  /\ body' = <<>>
  /\ locals' = NoLocals
  /\ UNCHANGED <<mat, matsToRelease, stepIdx, outcome>>

\* the statement completes
Proceed(hp, m, ls, rel) ==
  /\ heap' = hp
  /\ mat' = m
  /\ locals' = ls
  /\ matsToRelease' = rel
  /\ body' = Tail(body)
  /\ UNCHANGED <<images, pc, stepIdx, raisedAt, lastAlert, consoleError, outcome>>

\* what a primitive leaves in dst when it reads src
Written(s, srcBuf, dstBuf) ==
  [dstBuf EXCEPT !.content = Content(srcBuf.content.img, srcBuf.content.ver + 1),
                 !.ch = IF s.ch = 0 THEN srcBuf.ch ELSE s.ch]

\* one statement of the current step
ExecStatement ==
  /\ pc = "steps"
  /\ body # <<>>
  /\ LET s == Head(body) IN
     CASE s.op = "new" ->
            Proceed(Alloc(heap, "run", EmptyMat), mat,
                    (s.dst :> NewRef(heap, "run")) @@ locals, matsToRelease)
       [] s.op = "roi" ->
            \/ Raise(s.fin)
            \/ /\ IsLive(heap, mat)
               /\ Proceed(Alloc(heap, "run", Buf(Get(heap, mat).content, Get(heap, mat).ch)),
                          mat, (s.dst :> NewRef(heap, "run")) @@ locals, matsToRelease)
       [] s.op = "get" ->
            /\ IsLive(heap, Lookup(s.src))
            /\ Proceed(Alloc(heap, "run", Buf(Get(heap, Lookup(s.src)).content, 1)),
                       mat, (s.dst :> NewRef(heap, "run")) @@ locals, matsToRelease)
       [] s.op = "call" ->
            \/ Raise(s.fin)
            \/ /\ IsLive(heap, Lookup(s.src))
               /\ IsLive(heap, Lookup(s.dst))
               /\ Proceed(Put(heap, Lookup(s.dst),
                              Written(s, Get(heap, Lookup(s.src)), Get(heap, Lookup(s.dst)))),
                          mat, locals, matsToRelease)
       [] s.op = "del" ->
            \/ Proceed(Release(heap, Lookup(s.dst)), mat, locals, matsToRelease)
            \/ /\ ~IsLive(heap, Lookup(s.dst))
               /\ Raise(s.fin)
       [] s.op = "set" ->
            Proceed(heap, Lookup(s.dst), locals, Append(matsToRelease, Lookup(s.dst)))
  /\ UNCHANGED <<editorVars, cvReady, hookVars, originalMat, transformPipeline, showCodeExport, pending, clipboard, probe>>

\* the end of a step's block: the next iteration of the for loop, or its end
NextStep ==
  /\ pc = "steps"
  /\ body = <<>>
  /\ locals' = NoLocals
  /\ IF stepIdx < Len(transformPipeline)
       THEN /\ stepIdx' = stepIdx + 1
            /\ body' = Body(transformPipeline[stepIdx + 1], Get(heap, mat).ch)
            /\ UNCHANGED pc
       ELSE /\ pc' = "encode"
            /\ UNCHANGED <<stepIdx, body>>
  /\ UNCHANGED <<editorVars, cvReady, hookVars, images, originalMat, transformPipeline, showCodeExport, pending,
                 heap, mat, matsToRelease, raisedAt, lastAlert, consoleError, outcome,
                 clipboard, probe>>

\* after the loop: processedUrl = matToDataUrl(mat, cv); setImages(processed: processedUrl).
\* matToDataUrl raises on a released Mat and converts a Mat that is not 4-channel
\* through a temporary it deletes
Encode ==
  /\ pc = "encode"
  /\ IF IsLive(heap, mat)
       THEN /\ images' = [images EXCEPT !.processed = MatToDataUrl(Get(heap, mat))]
            /\ heap' = IF Get(heap, mat).ch # 4
                         THEN Release(Alloc(heap, "run", EmptyMat), NewRef(heap, "run"))
                         ELSE heap
       ELSE UNCHANGED <<images, heap>>
  /\ pc' = "finally"
  /\ UNCHANGED <<editorVars, cvReady, hookVars, originalMat, transformPipeline, showCodeExport, pending,
                 stepIdx, body, mat, locals, matsToRelease, raisedAt, lastAlert,
                 consoleError, outcome, clipboard, probe>>

\* matsToRelease.forEach(m => m.delete()); strict: the provider raises on a handle
\* that is already released, which ends the forEach
RECURSIVE ForEachDelete(_, _, _)
ForEachDelete(hp, rs, strict) ==
  IF rs = <<>> THEN [heap |-> hp, threw |-> FALSE]
  ELSE IF ~IsLive(hp, Head(rs)) /\ strict
    THEN [heap |-> Release(hp, Head(rs)), threw |-> TRUE]
    ELSE ForEachDelete(Release(hp, Head(rs)), Tail(rs), strict)

\* the finally block, and the end of the invocation
Finally ==
  /\ pc = "finally"
  /\ \E strict \in BOOLEAN :
       LET r == ForEachDelete(heap, matsToRelease, strict) IN
       /\ heap' = r.heap
       /\ outcome' = IF r.threw THEN "rejected"
                     ELSE IF raisedAt # 0 THEN "failed" ELSE "completed"
  /\ pc' = "idle"
  /\ stepIdx' = 0
  /\ mat' = NoRef
  /\ matsToRelease' = <<>>
  /\ UNCHANGED <<editorVars, cvReady, hookVars, images, originalMat, transformPipeline, showCodeExport, pending,
                 body, locals, raisedAt, lastAlert, consoleError, clipboard, probe>>

-----------------------------------------------------------------------------
(* The session: loading an image (SpecLoad), authoring steps (SpecAuthor), and  *)
(* reordering and removing them (SpecEdit)                                      *)

LoadNext ==
  \/ CvLoaded
  \/ FailTimeout
  \/ \E img \in Imgs : HandleImageUpload(img)
  \/ \E task \in pending : UploadDecoded(task)
  \/ HandleReset
  \/ \E task \in pending : ResetDecoded(task)

SpecLoad == Init /\ [][LoadNext]_vars

\* the number of steps authored in SpecAuthor
MaxAuthored == 1

AuthorNext ==
  \/ \E cat \in CategoryNames : SelectCategory(cat)
  \/ \E op \in OperationsOf(selectedCategory) : SelectOperation(op.value)
  \/ \E param \in Range(CurrentOperation.params), value \in SliderValues :
       SetTransformParam(param, value)
  \/ Len(transformPipeline) < MaxAuthored /\ AddTransformToPipeline

SpecAuthor == Init /\ [][AuthorNext]_vars

\* a step as "Add to Pipeline" records it, for the operations of one category
AuthoredSteps ==
  { [id |-> id, type |-> op.value, params |-> AuthoredParams(DefaultsOf(op)),
     name |-> op.label] :
      id \in GenerateId, op \in OperationsOf(TRANSFORM_CATEGORIES[1].category) }

\* the pipelines of up to n steps that adding, moving and removing steps reach
EditedPipelines(n) == UNION { [1..k -> AuthoredSteps] : k \in 0..n }

\* the page with a pipeline authored and no operation selected
EditInit ==
  /\ transformPipeline \in EditedPipelines(MaxEdited)
  /\ cvReady = FALSE
  /\ images = [original |-> NoUrl, processed |-> NoUrl]
  /\ originalMat = NoRef
  /\ showCodeExport = FALSE
  /\ pending = {}
  /\ heap = [src |-> <<>>, run |-> <<>>]
  /\ pc = "idle"
  /\ stepIdx = 0
  /\ body = <<>>
  /\ mat = NoRef
  /\ locals = NoLocals
  /\ matsToRelease = <<>>
  /\ raisedAt = 0
  /\ lastAlert = NoAlert
  /\ outcome = "none"
  /\ clipboard = NoText
  /\ probe = NoProbe
  /\ selectedCategory = ""
  /\ selectedOperation = ""
  /\ transformParams = NoParams
  /\ consoleError = NoLog
  /\ lastEdit = NoEdit
  /\ cvError = NoError
  /\ failTimer = "armed"

EditNext ==
  \/ \E id \in StepIds : RemoveTransformFromPipeline(id)
  \/ \E id \in StepIds, direction \in {"up", "down"} : MoveTransformInPipeline(id, direction)

SpecEdit == EditInit /\ [][EditNext]_vars

-----------------------------------------------------------------------------
(* The executor (Spec): runs of applyTransformPipeline from the sessions that     *)
(* loading and editing reach                                                      *)

\* the pipelines the editor builds: up to MaxLen catalog steps, each with the
\* parameters addTransformToPipeline records
RECURSIVE Pipelines(_)
Pipelines(n) ==
  IF n = 0 THEN {<<>>}
  ELSE LET shorter == Pipelines(n - 1) IN
       shorter \cup
       { Append(p, [id |-> Len(p) + 1, type |-> op.value,
                    params |-> DEFAULT_PARAMS, name |-> op.label]) :
           p \in {q \in shorter : Len(q) = n - 1}, op \in CatalogOps }

\* a session before a run: the provider ready or not, an image uploaded or not
\* (decoded when the provider was ready at the upload), any pipeline
RunInit ==
  /\ cvReady \in BOOLEAN
  /\ transformPipeline \in Pipelines(MaxLen)
  /\ \/ /\ images = [original |-> NoUrl, processed |-> NoUrl]
        /\ originalMat = NoRef
        /\ heap = [src |-> <<>>, run |-> <<>>]
     \/ \E img \in Imgs :
          \* uploaded while the provider was not ready, reset or not since
          \/ /\ images \in {[original |-> UploadUrl(img), processed |-> UploadUrl(img)],
                            [original |-> UploadUrl(img), processed |-> NoUrl]}
             /\ originalMat = NoRef
             /\ heap = [src |-> <<>>, run |-> <<>>]
          \* uploaded and decoded
          \/ /\ cvReady
             /\ images = [original |-> UploadUrl(img), processed |-> UploadUrl(img)]
             /\ originalMat = Ref("src", 1)
             /\ heap = [src |-> <<DataUrlToMat(UploadUrl(img))>>, run |-> <<>>]
          \* uploaded, decoded, then reset and decoded again
          \/ /\ cvReady
             /\ images = [original |-> UploadUrl(img), processed |-> NoUrl]
             /\ originalMat = Ref("src", 2)
             /\ heap = [src |-> <<DataUrlToMat(UploadUrl(img)), DataUrlToMat(UploadUrl(img))>>,
                        run |-> <<>>]
  /\ showCodeExport = FALSE
  /\ pending = {}
  /\ pc = "idle"
  /\ stepIdx = 0
  /\ body = <<>>
  /\ mat = NoRef
  /\ locals = NoLocals
  /\ matsToRelease = <<>>
  /\ raisedAt = 0
  /\ lastAlert = NoAlert
  /\ outcome = "none"
  /\ clipboard = NoText
  /\ probe = NoProbe
  /\ selectedCategory = ""
  /\ selectedOperation = ""
  /\ transformParams = NoParams
  /\ consoleError = NoLog
  /\ lastEdit = NoEdit
  /\ cvError = NoError
  /\ failTimer = "armed"

Next ==
  \/ ApplyTransformPipeline
  \/ ExecStatement
  \/ NextStep
  \/ Encode
  \/ Finally

Spec == RunInit /\ [][Next]_vars

-----------------------------------------------------------------------------
(* Claims about the executor, checked under Spec *)

\* an invocation that entered the loop has ended
RunEnded == pc = "idle" /\ outcome \in {"completed", "failed", "rejected"}

Unimplemented == {"hed", "cmyk", "nl_means", "perspective", "affine", "add_weighted",
                  "find_contours", "feature_detect"}

\* C1: once the transform of a step has raised, the processed image is null for the
\* rest of the run and when the run has ended: no image encoded from the working
\* buffer is stored.
C1_NoResultAfterRaise ==
  raisedAt # 0 => images.processed = NoUrl

\* C2: when a run has ended, on success and on failure paths, every buffer the run
\* allocated has been released exactly once (one delete() call each), so none twice.
C2_ReleasedExactlyOnce ==
  RunEnded => \A i \in 1..Len(heap.run) : heap.run[i].dels = 1

\* C3: when a run has ended (success or failure), no buffer the run allocated is live.
C3_NoLiveBufferAfterRun ==
  RunEnded => LiveRun(heap) = {}

\* C4: at every point of a run at most two buffers allocated by the run are live.
C4_AtMostTwoLive ==
  Cardinality(LiveRun(heap)) <= 2

\* C5: no step of the executor changes or releases the retained source buffer or
\* rebinds originalMat, and a run with a non-empty pipeline starts on a fresh Mat of
\* the run holding the source's content.
C5_SourceUntouched ==
  [][ /\ originalMat' = originalMat
      /\ heap'.src = heap.src
      /\ (pc = "idle" /\ pc' = "steps") =>
           /\ mat'.h = "run"
           /\ Get(heap', mat').content = Get(heap, originalMat).content
           /\ Get(heap, originalMat).content = Content(images.original.img, 0)
      /\ pc' # "idle" => (mat' # originalMat /\ IsLive(heap', originalMat)) ]_vars

\* C5 witness: a run that wrote its first buffer in place has ended and the source
\* is live with its decoded content
C5_RunEndedSourceIntact ==
  /\ RunEnded
  /\ heap.run[1].content.ver > 0
  /\ IsLive(heap, originalMat)
  /\ Get(heap, originalMat).content.ver = 0

\* C6 as stated: a run requested while the provider is not ready or no source is
\* decoded ends as a failure reported to the caller.
C6_RefusalReported ==
  outcome = "refused" => lastAlert # NoAlert

\* C6 amended: a run requested while the provider is not ready or no source is
\* decoded returns at once: no failure is reported, no buffer is allocated, no step
\* is executed and the images are left as they were.
C6_RefusalIsSilent ==
  [][ (pc = "idle" /\ Refused) =>
        /\ outcome' = "refused"
        /\ pc' = "idle"
        /\ lastAlert' = lastAlert /\ lastAlert = NoAlert
        /\ heap' = heap /\ heap.run = <<>>
        /\ raisedAt' = 0
        /\ images' = images ]_vars

\* C6 witness: a refused invocation with a pipeline to run and an image displayed
C6_Refused ==
  /\ outcome = "refused"
  /\ Len(transformPipeline) > 0
  /\ images.processed # NoUrl

\* C7: running the empty pipeline stores the original image as the processed image,
\* allocates nothing, and leaves the source buffer live and unchanged.
C7_EmptyPipelineIdentity ==
  [][ (pc = "idle" /\ ~Refused /\ Len(transformPipeline) = 0) =>
        /\ outcome' = "empty"
        /\ pc' = "idle"
        /\ images'.processed = images.original
        /\ images'.original = images.original
        /\ heap' = heap
        /\ IsLive(heap', originalMat) ]_vars

\* C7 witness: the empty pipeline was run on a session whose processed image had been
\* reset, and the original is displayed as processed
C7_EmptyRan ==
  /\ outcome = "empty"
  /\ Len(heap.src) = 2
  /\ images.processed = images.original
  /\ images.original # NoUrl
  /\ heap.run = <<>>

\* C8: a step of an unimplemented operation raises nothing, leaves the current
\* buffer, its content and the heap as they are, and the loop goes on to the next
\* step (or to the end of the loop after the last step).
C8_IdentityPass ==
  [][ (pc = "steps" /\ transformPipeline[stepIdx].type \in Unimplemented) =>
        /\ body = <<>>
        /\ heap' = heap
        /\ mat' = mat
        /\ matsToRelease' = matsToRelease
        /\ raisedAt' = raisedAt
        /\ lastAlert' = lastAlert
        /\ images' = images
        /\ IF stepIdx < Len(transformPipeline)
             THEN pc' = "steps" /\ stepIdx' = stepIdx + 1
             ELSE pc' = "encode" ]_vars

\* C8 witness: the step after an unimplemented first step is being executed on the
\* untouched clone
C8_ContinuedAfterIdentity ==
  /\ pc = "steps"
  /\ stepIdx = 2
  /\ transformPipeline[1].type \in Unimplemented
  /\ transformPipeline[2].type \notin Unimplemented
  /\ Len(heap.run) = 1
  /\ Get(heap, mat).content = Get(heap, originalMat).content
  /\ body # <<>>

\* C17 as stated: when the transform of a step raised, the alert shown to the user
\* identifies that step by its display name and by its operation identifier.
C17_AlertNamesStepAndIdentifier ==
  raisedAt # 0 =>
    /\ lastAlert.name = transformPipeline[raisedAt].name
    /\ "type" \in DOMAIN lastAlert
    /\ lastAlert.type = transformPipeline[raisedAt].type

\* C17 amended: when the transform of a step raised, the loop has stopped at that step
\* (the first one in pipeline order that raised), the alert shown to the user names
\* the step by its display name only, and the operation identifier is written to the
\* console.
C17_AlertNamesStepLogHasIdentifier ==
  raisedAt # 0 =>
    /\ lastAlert = [name |-> transformPipeline[raisedAt].name]
    /\ consoleError = [type |-> transformPipeline[raisedAt].type]
    /\ pc # "steps"
    /\ stepIdx \in {raisedAt, 0}

\* C17 witness: the second step of a run raised after the first completed, and the
\* run has ended
C17_SecondStepRaised ==
  /\ RunEnded
  /\ raisedAt = 2
  /\ lastAlert.name = transformPipeline[2].name
  /\ transformPipeline[1].name # transformPipeline[2].name

\* C23: a run executes the steps in pipeline order, each at most once: the loop starts
\* at the first step and goes from a completed step to the next one only; once the
\* transform of a step has raised, no statement of any step is executed any more.
C23_StepsInOrder ==
  [][ /\ (pc = "idle" /\ pc' = "steps") =>
           (stepIdx' = 1 /\ body' = Body(transformPipeline[1], 4))
      /\ (pc = "steps" /\ stepIdx' # stepIdx) =>
           /\ stepIdx' = stepIdx + 1
           /\ body = <<>>
           /\ raisedAt = 0
           /\ pc' = "steps"
      /\ (pc = "steps" /\ stepIdx' = stepIdx /\ pc' = "steps") =>
           (body # <<>> /\ body' = Tail(body))
      /\ pc \in {"encode", "finally"} => (stepIdx' \in {stepIdx, 0} /\ pc' # "steps")
      /\ raisedAt' # 0 => (pc' # "steps" /\ body' = <<>>) ]_vars

\* C23 witness: the first of two implemented steps raised and the run has ended
C23_FirstStepRaised ==
  /\ RunEnded
  /\ raisedAt = 1
  /\ Len(transformPipeline) = 2
  /\ transformPipeline[2].type \notin Unimplemented

\* C24: when a step of a run has completed without raising, exactly one buffer
\* allocated by the run is live, and it is the current working buffer.
C24_OneLiveAfterStep ==
  (pc = "steps" /\ body = <<>> /\ raisedAt = 0) =>
    /\ IsLive(heap, mat)
    /\ LiveRun(heap) = {mat.i}

\* C25: when a step of any type has completed without raising, the current working
\* buffer has the 4-channel layout of the source clone, as before the step.
C25_FourChannelsAfterStep ==
  (pc = "steps" /\ raisedAt = 0 /\ (body = <<>> \/ body = Body(transformPipeline[stepIdx], 4))) =>
    Get(heap, mat).ch = 4

\* C25 witness: a threshold-family step has completed after working on a
\* single-channel gray temporary
C25_ThresholdStepCompleted ==
  /\ pc = "steps"
  /\ body = <<>>
  /\ raisedAt = 0
  /\ transformPipeline[stepIdx].type \in {"simple_thresh", "adaptive_thresh", "otsu"}
  /\ \E i \in 1..Len(heap.run) : heap.run[i].ch = 1 /\ heap.run[i].content.ver > 0
  /\ Get(heap, mat).ch = 4

-----------------------------------------------------------------------------
(* generatePythonCode *)

\* one line of the generated text: the text with its interpolated numbers taken
\* out (nums, in hundredths) and, for an annotation, the step's name
Line(text, nums) == [text |-> text, nums |-> nums, name |-> ""]

\* faulty variant: the annotation carries the zero-based index
AnnotationZeroBased(k, name) == [text |-> "# Step", nums |-> <<(k - 1) * 100>>, name |-> name]

\* "# Step ${index + 1}: ${step.name}"
Annotation(k, name) == [text |-> "# Step", nums |-> <<k * 100>>, name |-> name]

Prologue ==
  << Line("import cv2", <<>>),
     Line("import numpy as np", <<>>),
     Line("from PIL import Image, ImageEnhance", <<>>),
     Line("", <<>>),
     Line("# Load image", <<>>),
     Line("image = cv2.imread('input_image.jpg')", <<>>),
     Line("processed_image = image.copy()", <<>>),
     Line("", <<>>),
     Line("# Apply transform pipeline", <<>>) >>

Epilogue ==
  << Line("", <<>>),
     Line("# Save final processed image", <<>>),
     Line("cv2.imwrite('output_image.jpg', processed_image)", <<>>) >>

\* the step types the switch has a case for
ExportedTypes == {"blur", "threshold", "contrast", "brightness", "sharpen", "crop"}

\* the numbers the case of step.type interpolates, in hundredths
ExportNums(step) ==
  LET t == step.type IN
  CASE t = "blur" -> << (Falsy(Param(step, "blur"), 1) * 2 + 1) * 100 >>
    [] t = "threshold" -> << Falsy(Param(step, "threshold"), 128) * 100 >>
    [] t = "contrast" -> << Falsy(Param(step, "contrast"), 100) >>
    [] t = "brightness" -> << Falsy(Param(step, "brightness"), 100), 0 >>
    [] t = "crop" -> << Falsy(Param(step, "cropX"), 0), Falsy(Param(step, "cropY"), 0),
                        Falsy(Param(step, "cropWidth"), 100),
                        Falsy(Param(step, "cropHeight"), 100) >>
    [] OTHER -> <<>>

\* the lines of the case of step.type
CaseLines(step) ==
  LET t == step.type
      n == ExportNums(step)
  IN CASE t = "blur" ->
            << Line("processed_image = cv2.GaussianBlur(processed_image, (_, _), 0)",
                    <<n[1], n[1]>>) >>
       [] t = "threshold" ->
            << Line("gray = cv2.cvtColor(processed_image, cv2.COLOR_BGR2GRAY)", <<>>),
               Line("_, processed_image = cv2.threshold(gray, _, 255, cv2.THRESH_BINARY)", n),
               Line("processed_image = cv2.cvtColor(processed_image, cv2.COLOR_GRAY2BGR)",
                    <<>>) >>
       [] t = "contrast" ->
            << Line("pil_image = Image.fromarray(cv2.cvtColor(processed_image, cv2.COLOR_BGR2RGB))",
                    <<>>),
               Line("enhancer = ImageEnhance.Contrast(pil_image)", <<>>),
               Line("processed_image = cv2.cvtColor(np.array(enhancer.enhance(_)), cv2.COLOR_RGB2BGR)",
                    n) >>
       [] t = "brightness" ->
            << Line("processed_image = cv2.convertScaleAbs(processed_image, alpha=_, beta=0)",
                    <<n[1]>>) >>
       [] t = "sharpen" ->
            << Line("kernel = np.array([[-1,-1,-1], [-1,9,-1], [-1,-1,-1]])", <<>>),
               Line("processed_image = cv2.filter2D(processed_image, -1, kernel)", <<>>) >>
       [] t = "crop" ->
            << Line("height, width = processed_image.shape[:2]", <<>>),
               Line("x = int(width * _)", <<n[1]>>),
               Line("y = int(height * _)", <<n[2]>>),
               Line("w = int(width * _)", <<n[3]>>),
               Line("h = int(height * _)", <<n[4]>>),
               Line("processed_image = processed_image[y:y+h, x:x+w]", <<>>) >>

\* faulty variant: a default branch that emits a line
NoCaseComment == << Line("# (no Python equivalent)", <<>>) >>

\* the switch has no default branch: a type without a case adds nothing
NoCase == <<>>

\* the body of the forEach for one step: the annotation, then the switch
StepBlock(step, index) ==
  << Line("", <<>>), Annotation(index, step.name) >>
  \o (IF step.type \in ExportedTypes THEN CaseLines(step) ELSE NoCase)

RECURSIVE StepBlocks(_, _)
StepBlocks(pipeline, k) ==
  IF k > Len(pipeline) THEN <<>>
  ELSE StepBlock(pipeline[k], k) \o StepBlocks(pipeline, k + 1)

\* the empty string for the empty pipeline
EmptyText == <<>>

GeneratePythonCode(pipeline) ==
  IF Len(pipeline) = 0 THEN EmptyText
  ELSE Prologue \o StepBlocks(pipeline, 1) \o Epilogue

\* "Copy to Clipboard" of the code export modal
CopyToClipboard ==
  /\ pc = "idle"
  /\ showCodeExport
  /\ clipboard' = GeneratePythonCode(transformPipeline)
  /\ UNCHANGED <<editorVars, cvReady, hookVars, images, originalMat, transformPipeline, showCodeExport, pending,
                 heap, runVars, probe>>

\* the page once the provider is ready, with any pipeline the editor builds
GenInit ==
  /\ cvReady = TRUE
  /\ transformPipeline \in Pipelines(MaxLen)
  /\ images = [original |-> NoUrl, processed |-> NoUrl]
  /\ originalMat = NoRef
  /\ heap = [src |-> <<>>, run |-> <<>>]
  /\ showCodeExport = FALSE
  /\ pending = {}
  /\ pc = "idle"
  /\ stepIdx = 0
  /\ body = <<>>
  /\ mat = NoRef
  /\ locals = NoLocals
  /\ matsToRelease = <<>>
  /\ raisedAt = 0
  /\ lastAlert = NoAlert
  /\ outcome = "none"
  /\ clipboard = NoText
  /\ probe = NoProbe
  /\ selectedCategory = ""
  /\ selectedOperation = ""
  /\ transformParams = NoParams
  /\ consoleError = NoLog
  /\ lastEdit = NoEdit
  /\ cvError = NoError
  /\ failTimer = "armed"

GenNext ==
  \/ ToggleCodeExport
  \/ CopyToClipboard

SpecGen == GenInit /\ [][GenNext]_vars

-----------------------------------------------------------------------------
(* Claims about generatePythonCode, checked under SpecGen *)

\* the text without the numbers of its annotations
Unnumbered(text) ==
  [k \in 1..Len(text) |->
     IF text[k].text = "# Step" THEN [text[k] EXCEPT !.nums = <<>>] ELSE text[k]]

\* the pipeline without its i-th step
WithoutStep(pipeline, i) ==
  [k \in 1..(Len(pipeline) - 1) |-> IF k < i THEN pipeline[k] ELSE pipeline[k + 1]]

\* the text without its lines at positions a..b
WithoutLines(text, a, b) ==
  [k \in 1..(Len(text) - (b - a + 1)) |-> IF k < a THEN text[k] ELSE text[k + (b - a + 1)]]

\* the position of the annotation of step i
AnnotationAt(text, i) ==
  CHOOSE k \in 1..Len(text) : text[k].text = "# Step" /\ text[k].nums = <<i * 100>>

\* C9 as stated: a step without an export mapping contributes no text: the copied
\* script is the script of the pipeline without that step, up to step numbering.
C9_UnmappedStepOmitted ==
  clipboard # NoText =>
    \A i \in 1..Len(transformPipeline) :
      transformPipeline[i].type \notin ExportedTypes =>
        Unnumbered(clipboard) =
          Unnumbered(GeneratePythonCode(WithoutStep(transformPipeline, i)))

\* C9 amended: a step without an export mapping contributes exactly its annotation
\* (a blank line and "# Step k: name") and no call: the script without these two
\* lines is, up to step numbering, the script of the pipeline without that step
\* (the prologue and epilogue alone when it was the only step).
C9_UnmappedStepOnlyAnnotated ==
  clipboard # NoText =>
    \A i \in 1..Len(transformPipeline) :
      transformPipeline[i].type \notin ExportedTypes =>
        LET at == AnnotationAt(clipboard, i) IN
        /\ clipboard[at].name = transformPipeline[i].name
        /\ clipboard[at - 1] = Line("", <<>>)
        /\ Unnumbered(WithoutLines(clipboard, at - 1, at)) =
             IF Len(transformPipeline) > 1
               THEN Unnumbered(GeneratePythonCode(WithoutStep(transformPipeline, i)))
               ELSE Prologue \o Epilogue

\* C9 witness: the script of a pipeline with a mapped and an unmapped step was copied
C9_CopiedMixedPipeline ==
  /\ clipboard # NoText
  /\ Len(transformPipeline) = 2
  /\ transformPipeline[1].type \notin ExportedTypes
  /\ transformPipeline[2].type \in ExportedTypes

\* the catalog operations the executor has a transform for
Implemented == { op.value : op \in CatalogOps } \ Unimplemented

\* the lines of the copied script between the prologue and the epilogue
CopiedBlocks == SubSeq(clipboard, Len(Prologue) + 1, Len(clipboard) - Len(Epilogue))

\* C11: the script of a one-step pipeline whose operation the executor implements has
\* exactly one annotated block, and the block holds a call for the operation (a line
\* other than the blank line and the annotation).
C11_SupportedStepHasCall ==
  (clipboard # NoText /\ Len(transformPipeline) = 1
     /\ transformPipeline[1].type \in Implemented) =>
    /\ Cardinality({ k \in 1..Len(CopiedBlocks) : CopiedBlocks[k].text = "# Step" }) = 1
    /\ \E k \in 1..Len(CopiedBlocks) : CopiedBlocks[k].text \notin {"", "# Step"}

\* C21: generatePythonCode returns the empty text for the empty pipeline, and the
\* script of a pipeline of n >= 1 steps holds the annotations "# Step k: name of step
\* k" for k = 1..n, once each and in pipeline order.
C21_AnnotationsInOrder ==
  /\ GeneratePythonCode(SubSeq(transformPipeline, 1, 0)) = <<>>
  /\ clipboard # NoText =>
       /\ Len(transformPipeline) >= 1
       /\ SelectSeq(clipboard, LAMBDA l : l.text = "# Step") =
            [k \in 1..Len(transformPipeline) |->
               [text |-> "# Step", nums |-> <<k * 100>>, name |-> transformPipeline[k].name]]

\* C21 witness: the script of a pipeline of two steps with different names was copied
C21_CopiedTwoSteps ==
  /\ clipboard # NoText
  /\ Len(transformPipeline) = 2
  /\ transformPipeline[1].name # transformPipeline[2].name

-----------------------------------------------------------------------------
(* The numbers of a step: executor against generated script (SpecNum) *)

Max(a, b) == IF a >= b THEN a ELSE b

\* Math.floor(p / 100 * n) for a percentage p >= 0 and a dimension n
PercentOf(p, n) == (p * n) \div 100

\* the value the executor uses for a parameter it reads: step.params.<key> with the
\* fallback written at the place of use
EffectiveParam(step, key) ==
  CASE key \in {"cropX", "cropY"} -> Nullish(Param(step, key), 0)
    [] key \in {"cropWidth", "cropHeight"} -> Nullish(Param(step, key), 100)
    [] key \in {"contrast", "brightness"} -> Nullish(Param(step, key), 100)
    [] key = "blur" -> Falsy(Param(step, key), 5)
    [] key = "threshold" -> Falsy(Param(step, key), 128)

\* the parameters the branch of a step type reads, of those DEFAULT_PARAMS lists
KeysRead(type) ==
  CASE type \in {"contrast", "brightness"} -> {"contrast", "brightness"}
    [] type = "crop" -> {"cropX", "cropY", "cropWidth", "cropHeight"}
    [] type \in {"gaussian_blur", "median_blur"} -> {"blur"}
    [] type = "simple_thresh" -> {"threshold"}
    [] OTHER -> {}

\* faulty variant: each of the two types reads only its own parameter
ConvertToArgsOwn(step) ==
  IF step.type = "contrast"
    THEN << EffectiveParam(step, "contrast"), 0 >>
    ELSE << 100, (EffectiveParam(step, "brightness") - 100) * 255 >>

\* mat.convertTo(mat, -1, alpha, beta): alpha and beta in hundredths
ConvertToArgs(step) ==
  << EffectiveParam(step, "contrast"), (EffectiveParam(step, "brightness") - 100) * 255 >>

\* ksize|1 for a non-negative integer
BitOr1(k) == IF k % 2 = 0 THEN k + 1 ELSE k

\* the kernel size gaussian_blur and median_blur pass to the provider
KernelSize(step) == BitOr1(EffectiveParam(step, "blur"))

\* cv.THRESH_BINARY: maxval above the threshold, 0 otherwise
ThresholdBinary(v, thresh, maxval) == IF v > thresh THEN maxval ELSE 0

\* the gray values of a buffer
GrayValues == 0..255

\* cv.threshold(gray, out, step.params.threshold || 128, 255, cv.THRESH_BINARY) on a
\* pixel of gray
SimpleThresh(step, v) == ThresholdBinary(v, EffectiveParam(step, "threshold"), 255)

\* the numbers the executor passes to the provider for the step on a cols x rows
\* buffer: alpha and beta of convertTo in hundredths, or the crop rectangle in pixels
ExecNumbers(step, cols, rows) ==
  IF step.type \in {"contrast", "brightness"}
    THEN ConvertToArgs(step)
  ELSE IF step.type = "crop"
    THEN << Max(0, PercentOf(EffectiveParam(step, "cropX"), cols)),
            Max(0, PercentOf(EffectiveParam(step, "cropY"), rows)),
            Max(1, PercentOf(EffectiveParam(step, "cropWidth"), cols)),
            Max(1, PercentOf(EffectiveParam(step, "cropHeight"), rows)) >>
  ELSE <<>>

\* the numbers of the generated script for the step: the alpha and beta literals in
\* hundredths (the contrast case emits a factor and no offset: beta 0), or x, y, w, h
\* as the script computes them, int(width * literal), on a cols x rows image
SynthNumbers(step, cols, rows) ==
  LET n == ExportNums(step) IN
  IF step.type = "crop"
    THEN << PercentOf(n[1], cols), PercentOf(n[2], rows),
            PercentOf(n[3], cols), PercentOf(n[4], rows) >>
  ELSE IF step.type = "contrast" THEN << n[1], 0 >>
  ELSE n

\* parameter values tried: unset, zero, the neutral value and the editor's default
Percentages == {Unset, 0, 10, 80, 100}
Levels == {Unset, 0, 100, 110, 120}
Dims == 1..MaxDim
Blurs == {Unset} \cup 0..MaxBlur
Thresholds == {Unset, 0, 1, 128, 255}

ProbeSteps ==
  { [id |-> 1, type |-> t, params |-> [contrast |-> c, brightness |-> b], name |-> t] :
      t \in {"contrast", "brightness"}, c \in Levels, b \in Levels }
  \cup
  { [id |-> 1, type |-> "crop",
     params |-> [cropX |-> xy[1], cropY |-> xy[2], cropWidth |-> wh[1], cropHeight |-> wh[2]],
     name |-> "Crop"] :
      xy \in {<<Unset, Unset>>, <<0, 0>>, <<10, 10>>, <<0, 10>>, <<80, 80>>},
      wh \in Percentages \X Percentages }
  \cup
  { [id |-> 1, type |-> t, params |-> [blur |-> k], name |-> t] :
      t \in {"gaussian_blur", "median_blur"}, k \in Blurs }
  \cup
  { [id |-> 1, type |-> "simple_thresh", params |-> [threshold |-> v],
     name |-> "Simple Threshold"] : v \in Thresholds }

NumInit ==
  /\ probe \in { [phase |-> "input", step |-> st, cols |-> c, rows |-> r,
                  exec |-> <<>>, synth |-> <<>>, eff |-> NoParams, ksize |-> 0,
                  out |-> <<>>] :
                 st \in ProbeSteps, c \in Dims, r \in Dims }
  /\ cvReady = TRUE
  /\ transformPipeline = <<>>
  /\ images = [original |-> NoUrl, processed |-> NoUrl]
  /\ originalMat = NoRef
  /\ heap = [src |-> <<>>, run |-> <<>>]
  /\ showCodeExport = FALSE
  /\ pending = {}
  /\ pc = "idle"
  /\ stepIdx = 0
  /\ body = <<>>
  /\ mat = NoRef
  /\ locals = NoLocals
  /\ matsToRelease = <<>>
  /\ raisedAt = 0
  /\ lastAlert = NoAlert
  /\ outcome = "none"
  /\ clipboard = NoText
  /\ selectedCategory = ""
  /\ selectedOperation = ""
  /\ transformParams = NoParams
  /\ consoleError = NoLog
  /\ lastEdit = NoEdit
  /\ cvError = NoError
  /\ failTimer = "armed"

\* the executor derives the numbers of the step
ProbeExecutor ==
  /\ probe.phase = "input"
  /\ probe' = [probe EXCEPT
                 !.phase = "executed",
                 !.exec = ExecNumbers(probe.step, probe.cols, probe.rows),
                 !.eff = [key \in KeysRead(probe.step.type) |->
                            EffectiveParam(probe.step, key)],
                 !.ksize = IF "blur" \in KeysRead(probe.step.type)
                             THEN KernelSize(probe.step) ELSE 0,
                 !.out = IF probe.step.type = "simple_thresh"
                           THEN [v \in GrayValues |-> SimpleThresh(probe.step, v)]
                           ELSE <<>>]
  /\ UNCHANGED <<editorVars, cvReady, hookVars, images, originalMat, transformPipeline, showCodeExport, pending,
                 heap, runVars, clipboard>>

\* the script generated for the step derives its numbers
ProbeScript ==
  /\ probe.phase = "executed"
  /\ probe' = [probe EXCEPT !.phase = "done",
                            !.synth = SynthNumbers(probe.step, probe.cols, probe.rows)]
  /\ UNCHANGED <<editorVars, cvReady, hookVars, images, originalMat, transformPipeline, showCodeExport, pending,
                 heap, runVars, clipboard>>

NumNext ==
  \/ ProbeExecutor
  \/ ProbeScript

SpecNum == NumInit /\ [][NumNext]_vars

\* C10: for a brightness, contrast or crop step and any parameter set, the numbers of
\* the generated script are the numbers the executor computes: the same alpha and
\* beta, the same pixel rectangle.
C10_SameNumbers ==
  probe.phase = "done" => probe.synth = probe.exec

C16_OneLinearTransform ==
  (probe.phase = "done" /\ probe.step.type \in {"contrast", "brightness"}) =>
    LET c == Param(probe.step, "contrast")
        b == Param(probe.step, "brightness")
        other == IF probe.step.type = "contrast" THEN "brightness" ELSE "contrast"
    IN /\ Body(probe.step, 4) = << Call("convertTo", "mat", "mat", 0) >>
       /\ Len(probe.exec) = 2
       /\ c # Unset => probe.exec[1] = c
       /\ b # Unset => probe.exec[2] = (b - 100) * 255
       /\ probe.exec = ExecNumbers([probe.step EXCEPT !.type = other], probe.cols, probe.rows)

\* C16 witness: a brightness step with the parameters the editor records (contrast
\* 120, brightness 110) was executed with alpha 1.2 and beta 25.5
C16_BrightnessStepUsesContrast ==
  /\ probe.phase = "done"
  /\ probe.step.type = "brightness"
  /\ Param(probe.step, "contrast") = DEFAULT_PARAMS.contrast
  /\ Param(probe.step, "brightness") = DEFAULT_PARAMS.brightness
  /\ probe.exec = << 120, 2550 >>

-----------------------------------------------------------------------------
(* The size of the buffer through rotate steps (SpecRotate) *)

\* faulty variant: the rotated buffer keeps the size of its source
RotatedSizeKeep(angle, cols, rows) == << cols, rows >>

\* the size of rotated: cv.rotate by a quarter turn exchanges cols and rows, by a
\* half turn keeps them; warpAffine is given new cv.Size(mat.cols, mat.rows)
RotatedSize(angle, cols, rows) ==
  IF angle \in {90, 270} THEN << rows, cols >> ELSE << cols, rows >>

\* const angle = step.params.rotateAngle || 0
RotateAngle(step) == Falsy(Param(step, "rotateAngle"), 0)

\* rotateAngle values tried: unset, none, an arbitrary angle, the three special cases
RotateAngles == {Unset, 0, 45, 90, 180, 270}

RotateSteps ==
  { [id |-> 1, type |-> "rotate", params |-> [rotateAngle |-> a], name |-> "Rotate"] :
      a \in RotateAngles }

\* a source of any size up to MaxDim and a pipeline of up to MaxRotations rotate steps
RotateInit ==
  /\ probe \in { [phase |-> "rotating", steps |-> steps, k |-> 0,
                  cols |-> c, rows |-> r, prevCols |-> c, prevRows |-> r,
                  cols0 |-> c, rows0 |-> r] :
                 steps \in UNION { [1..n -> RotateSteps] : n \in 1..MaxRotations },
                 c \in Dims, r \in Dims }
  /\ cvReady = TRUE
  /\ transformPipeline = <<>>
  /\ images = [original |-> NoUrl, processed |-> NoUrl]
  /\ originalMat = NoRef
  /\ heap = [src |-> <<>>, run |-> <<>>]
  /\ showCodeExport = FALSE
  /\ pending = {}
  /\ pc = "idle"
  /\ stepIdx = 0
  /\ body = <<>>
  /\ mat = NoRef
  /\ locals = NoLocals
  /\ matsToRelease = <<>>
  /\ raisedAt = 0
  /\ lastAlert = NoAlert
  /\ outcome = "none"
  /\ clipboard = NoText
  /\ selectedCategory = ""
  /\ selectedOperation = ""
  /\ transformParams = NoParams
  /\ consoleError = NoLog
  /\ lastEdit = NoEdit
  /\ cvError = NoError
  /\ failTimer = "armed"

\* the rotate branch for the next step: mat = rotated
RotateStep ==
  /\ probe.phase = "rotating"
  /\ probe.k < Len(probe.steps)
  /\ LET size == RotatedSize(RotateAngle(probe.steps[probe.k + 1]), probe.cols, probe.rows)
     IN probe' = [probe EXCEPT !.k = @ + 1,
                               !.prevCols = probe.cols, !.prevRows = probe.rows,
                               !.cols = size[1], !.rows = size[2]]
  /\ UNCHANGED <<editorVars, cvReady, hookVars, images, originalMat, transformPipeline, showCodeExport,
                 pending, heap, runVars, clipboard>>

RotateNext == RotateStep

SpecRotate == RotateInit /\ [][RotateNext]_vars

\* C22: a rotate step with angle 90 exchanges width and height; one with angle 180 or
\* any angle other than 90 and 270 leaves them as they were; after four consecutive
\* rotate steps with angle 90 the buffer has the width and height it started with.
C22_QuarterTurnsRestoreSize ==
  (probe.phase = "rotating" /\ probe.k > 0) =>
    LET angle == Param(probe.steps[probe.k], "rotateAngle") IN
    /\ angle = 90 => (probe.cols = probe.prevRows /\ probe.rows = probe.prevCols)
    /\ angle \notin {90, 270} =>
         (probe.cols = probe.prevCols /\ probe.rows = probe.prevRows)
    /\ (probe.k = 4 /\ \A j \in 1..4 : Param(probe.steps[j], "rotateAngle") = 90) =>
         (probe.cols = probe.cols0 /\ probe.rows = probe.rows0)

\* C22 witness: four rotate steps with angle 90 were applied to a buffer that is not
\* square, the third left it on its side
C22_FourQuarterTurns ==
  /\ probe.phase = "rotating"
  /\ probe.k = 4
  /\ \A j \in 1..4 : Param(probe.steps[j], "rotateAngle") = 90
  /\ probe.cols0 # probe.rows0
  /\ probe.prevCols = probe.rows0
  /\ probe.cols = probe.cols0

-----------------------------------------------------------------------------
(* Claims about the pipeline editor, checked under SpecAuthor and SpecEdit *)

\* C13: the step "Add to Pipeline" appends records as its parameter set exactly the
\* values of the editor's sliders for the selected operation (transformParams), and
\* nothing else.
C13_StepRecordsEditorValues ==
  [][ Len(transformPipeline') = Len(transformPipeline) + 1 =>
        transformPipeline'[Len(transformPipeline')].params = transformParams ]_vars

\* C18: the selected operation belongs to exactly one category of the catalog, and
\* every parameter key it declares has a default in DEFAULT_PARAMS.
C18_CatalogComplete ==
  selectedOperation # "" =>
    /\ Cardinality({ c \in 1..Len(TRANSFORM_CATEGORIES) :
                       \E op \in Range(TRANSFORM_CATEGORIES[c].operations) :
                         op.value = selectedOperation }) = 1
    /\ \A param \in Range(CurrentOperation.params) : param \in DOMAIN DEFAULT_PARAMS

\* the positions of the steps of a pipeline with an identity
Holders(pipeline, id) == { k \in 1..Len(pipeline) : pipeline[k].id = id }

\* the least element of a non-empty set of positions
Least(ks) == CHOOSE k \in ks : \A j \in ks : k <= j

\* C19: moveTransformInPipeline(id, direction) exchanges the step with that identity
\* (the first one, should two steps share it) with its neighbour in the direction and
\* leaves every other position as it was; each step keeps its identity, type, name and
\* parameters. Moving the first step up, the last step down, or an identity no step
\* has leaves the pipeline unchanged.
C19_MoveSwapsAdjacent ==
  lastEdit.op = "move" =>
    LET prev == lastEdit.prev
        ks == Holders(prev, lastEdit.id)
    IN IF ks = {} THEN transformPipeline = prev
       ELSE LET k == Least(ks)
                n == IF lastEdit.direction = "up" THEN k - 1 ELSE k + 1
            IN IF n < 1 \/ n > Len(prev) THEN transformPipeline = prev
               ELSE /\ Len(transformPipeline) = Len(prev)
                    /\ transformPipeline[n] = prev[k]
                    /\ transformPipeline[k] = prev[n]
                    /\ \A j \in 1..Len(prev) :
                         j \notin {k, n} => transformPipeline[j] = prev[j]

\* C19 witness: the middle step of a pipeline of three steps with three identities was
\* moved and the third stayed in place
C19_MovedMiddleStep ==
  /\ lastEdit.op = "move"
  /\ Len(lastEdit.prev) = 3
  /\ Cardinality({ lastEdit.prev[k].id : k \in 1..3 }) = 3
  /\ lastEdit.prev[2].id = lastEdit.id
  /\ lastEdit.direction = "up"
  /\ transformPipeline[1] = lastEdit.prev[2]
  /\ transformPipeline # lastEdit.prev

\* C20: removeTransformFromPipeline(id) with the identity of a step of the pipeline
\* removes exactly that one step and keeps the others in their order; with an
\* identity no step has it leaves the pipeline unchanged.
C20_RemoveExactlyOne ==
  lastEdit.op = "remove" =>
    LET prev == lastEdit.prev
        ks == Holders(prev, lastEdit.id)
    IN IF ks = {} THEN transformPipeline = prev
       ELSE \E k \in ks : transformPipeline = WithoutStep(prev, k)

-----------------------------------------------------------------------------
(* Readiness of the provider, the retained source buffer, the crop rectangle *)

\* C26: the readiness states reported by useOpenCv are mutually exclusive and ready is
\* stable: isReady is never true while error is set, under any timing of the polling
\* callback and of the failure timer, and once isReady is true it stays true.
C26_ReadyExcludesError ==
  /\ [](~(cvReady /\ cvError # NoError))
  /\ [][cvReady => cvReady']_vars

\* C27: when the provider fails to load (the error is set by the timer while the
\* provider is not ready) the page shows the error message, not the loading text.
C27_ErrorShown ==
  (cvError # NoError /\ ~cvReady) => Page = cvError

\* C28: under any interleaving of uploads and resets, whose decodings complete
\* asynchronously, the retained source buffer originalMat is the decoding of the
\* displayed original image images.original.
C28_SourceIsDisplayedOriginal ==
  (originalMat # NoRef /\ images.original # NoUrl) =>
    Get(heap, originalMat).content = DataUrlToMat(images.original).content

\* C29: across any sequence of uploads and resets at most one source buffer is live:
\* the buffer retained before is released when a newly decoded one is installed.
C29_OneLiveSource ==
  Cardinality({ i \in 1..Len(heap.src) : heap.src[i].live }) <= 1

====
